---- MODULE Spec2Model ----
(***************************************************************************)
(* Model of gr-sidekiq's sidekiq_base<HdlType> (lib/sidekiq_base.cc): the  *)
(* adapter around the libsidekiq vendor calls.  Every method is one action *)
(* that runs the whole method body: the statuses and values the hardware   *)
(* reports are the action's inputs, the hardware calls the method issued   *)
(* are recorded in `last`, together with how the method ended.             *)
(***************************************************************************)
EXTENDS Integers, Sequences, FiniteSets

\* ---------------------------------------------------------------- constants

SYNC_ZERO == 1

SYNC_GPS_PPS == 2

SYNC_SYSTEM_TIME == 3

NUM_CARDS == 1

NANOSECONDS_IN_SECOND == 1000000000

\* The literal 2400e6 of get_set_frequency_call_latency, in MHz.
LatencyProbeMHz == 2400

\* The two telemetry keys (declared in the header of sidekiq_base).
CMD_CURRENT_USRP_TIME == "current_usrp_time"

CMD_CURRENT_HOST_TIME == "current_host_time"

\* ------------------------------------------------------------------- bounds

\* uint32_t and uint64_t hold 0 .. UIntRange32-1 and 0 .. UIntRange64-1: the
\* widths are scaled down so that values beyond the type are in reach.
UIntRange32 == 2

UIntRange64 == 3

\* A double argument is the rational n / Den, n an integer.
Den == 2

\* Largest tick count the hardware reports in get_sidekiq_system_timestamp.
MaxTicks == 2

\* ------------------------------------------------------------ input domains

Status == {-1, 0, 1}

FailOk == {-1, 0}

Cards == {0}

Handles == {0, 1}

\* The (primary, secondary) port handles an adapter is built with: the first
\* and the second handle of the card.
HandlePairs == {<<0, 1>>}

NoHdl == -1

SyncTypes == {0, SYNC_ZERO, SYNC_GPS_PPS, SYNC_SYSTEM_TIME}

\* Timestamp frequencies skiq_read_sys_timestamp_freq may report.
Freqs == {0, 40000000, NANOSECONDS_IN_SECOND + 1}

\* Host wall-clock readings, nanoseconds since the epoch.
HostNanos == {999999999, 2000000001}

\* Tick counts the hardware reports: small ones, and one past a second of
\* 25 ns ticks.
Ticks == (0 .. MaxTicks) \cup {40000001}

\* Numerators of the double arguments of set_samplerate_bandwidth: below
\* -1, between -1 and 0, inside the type with a fraction, the largest value
\* that fits, and beyond the type.
Doubles32 == {0 - Den - 1, -1, Den + 1, UIntRange32 * Den - 1, UIntRange32 * Den + 1}

\* Numerators of the double argument of set_frequency.
Doubles64 == {0 - Den - 1, -1, Den + 1, UIntRange64 * Den - 1, UIntRange64 * Den + 1}

\* The two families of builds: how an out-of-range floating to unsigned
\* conversion and an integer division by zero (both undefined) come out.
Builds == {"x86_64", "aarch64"}

\* ------------------------------------------------------------ pure helpers

\* Truncation toward zero of n / Den (the value part of a static_cast).
Trunc(n) == IF n >= 0 THEN n \div Den ELSE 0 - ((0 - n) \div Den)

\* floor(n / Den).
Floor(n) == n \div Den

Representable(n, range) == Trunc(n) >= 0 /\ Trunc(n) < range

\* static_cast<unsigned>(double): truncation when the truncated value fits,
\* otherwise undefined: x86_64 keeps the low bits, aarch64 saturates.
CastUnsigned(b, n, range) ==
    IF Representable(n, range) THEN Trunc(n)
    ELSE IF b = "x86_64" THEN Trunc(n) % range
    ELSE IF Trunc(n) < 0 THEN 0 ELSE range - 1

\* Does the integer division x / d trap?  Only d = 0 can, and only where
\* the build traps (x86_64); elsewhere x / 0 yields 0.
DivTraps(b, d) == d = 0 /\ b = "x86_64"

UDiv(x, d) == IF d = 0 THEN 0 ELSE x \div d

HwCall(fn, h, status, args) ==
    [fn |-> fn, h |-> h, status |-> status, args |-> args]

Returned(calls, ret) == [calls |-> calls, outcome |-> "returned", ret |-> ret]

Raised(calls) == [calls |-> calls, outcome |-> "raised", ret |-> <<>>]

Crashed(calls) == [calls |-> calls, outcome |-> "crashed", ret |-> <<>>]

\* One hardware call whose non-zero status is turned into a failure.
Checked(call, ret) ==
    IF call.status # 0 THEN Raised(<<call>>) ELSE Returned(<<call>>, ret)

\* ------------------------------------------------------------------- state

VARIABLES
    build,          \* which family of builds runs
    phase,          \* "unconstructed", "ready", "failed" (constructor threw), "crashed"
    card, hdl, hdl2, dual_channel,
    timestamp_frequency,
    sidekiq_system_time_interval_nanos,
    sample_rate, bandwidth,
    written,        \* <<rate, bw>> of the latest successful primary write of this adapter
    last            \* the latest method invocation: what it issued and how it ended

vars == <<build, phase, card, hdl, hdl2, dual_channel, timestamp_frequency,
          sidekiq_system_time_interval_nanos, sample_rate, bandwidth, written, last>>

fields == <<card, hdl, hdl2, dual_channel, timestamp_frequency,
            sidekiq_system_time_interval_nanos, sample_rate, bandwidth, written>>

UInt32 == 0 .. (UIntRange32 - 1)

\* Two of the contents the never-initialised cache may start with.
JunkCache == {<<0, UIntRange32 - 1>>, <<UIntRange32 - 1, 0>>}

Invocation(op, arg, run) ==
    [op |-> op, dual |-> dual_channel, arg |-> arg,
     calls |-> run.calls, outcome |-> run.outcome, ret |-> run.ret]

\* A method that only talks to the hardware: no field changes; a trap ends
\* the process.
Finish(op, arg, run) ==
    /\ last' = Invocation(op, arg, run)
    /\ phase' = IF run.outcome = "crashed" THEN "crashed" ELSE phase
    /\ UNCHANGED <<build, fields>>

Init ==
    /\ build \in Builds
    /\ phase = "unconstructed"
    /\ card = 0
    /\ hdl = 0
    /\ hdl2 = 0
    /\ dual_channel = FALSE
    /\ timestamp_frequency = 0
    /\ sidekiq_system_time_interval_nanos = 0
    /\ sample_rate = 0
    /\ bandwidth = 0
    /\ written = <<>>
    /\ last = [op |-> "none", dual |-> FALSE, arg |-> <<>>,
               calls |-> <<>>, outcome |-> "returned", ret |-> <<>>]

\* ------------------------------------------------------------ construction

\* set_sync_type(type), as the calls it issues and how it ends.
set_sync_type_run(b, type, interval, now, st) ==
    IF type = SYNC_ZERO
    THEN Checked(HwCall("skiq_reset_timestamps", NoHdl, st, <<>>), <<>>)
    ELSE IF type = SYNC_GPS_PPS
    THEN Returned(<<>>, <<>>)
    ELSE IF type = SYNC_SYSTEM_TIME
    THEN IF DivTraps(b, interval)
         THEN Crashed(<<>>)
         ELSE Checked(HwCall("skiq_update_timestamps", NoHdl, st,
                             <<UDiv(now, interval)>>), <<>>)
    ELSE Returned(<<>>, <<>>)

\* What an invocation of the synchronization policy was given: the mode and,
\* where the mode reads it, the host clock.
sync_arg(type, now) == IF type = SYNC_SYSTEM_TIME THEN <<type, now>> ELSE <<type>>

\* The constructor with the check of skiq_init's status left out.
sidekiq_base_run_unchecked_init(b, c, type, s_init, F, s_freq, s_params, now, s_sync) ==
    LET init   == HwCall("skiq_init", NoHdl, s_init, <<c, NUM_CARDS>>)
        freq   == HwCall("skiq_read_sys_timestamp_freq", NoHdl, s_freq, <<>>)
        params == HwCall("skiq_read_parameters", NoHdl, s_params, <<>>)
        sync   == set_sync_type_run(b, type, UDiv(NANOSECONDS_IN_SECOND, F), now, s_sync)
    IN  IF s_freq # 0 THEN Raised(<<init, freq>>)
        ELSE IF DivTraps(b, F) THEN Crashed(<<init, freq>>)
        ELSE [calls |-> <<init, freq, params>> \o sync.calls,
              outcome |-> sync.outcome, ret |-> <<>>]

\* The constructor body, as the calls it issues and how it ends.
sidekiq_base_run(b, c, type, s_init, F, s_freq, s_params, now, s_sync) ==
    LET init   == HwCall("skiq_init", NoHdl, s_init, <<c, NUM_CARDS>>)
        freq   == HwCall("skiq_read_sys_timestamp_freq", NoHdl, s_freq, <<>>)
        params == HwCall("skiq_read_parameters", NoHdl, s_params, <<>>)
        sync   == set_sync_type_run(b, type, UDiv(NANOSECONDS_IN_SECOND, F), now, s_sync)
    IN  IF s_init # 0 THEN Raised(<<init>>)
        ELSE IF s_freq # 0 THEN Raised(<<init, freq>>)
        ELSE IF DivTraps(b, F) THEN Crashed(<<init, freq>>)
        ELSE [calls |-> <<init, freq, params>> \o sync.calls,
              outcome |-> sync.outcome, ret |-> <<>>]

sidekiq_base ==
    /\ phase = "unconstructed"
    /\ \E c \in Cards, type \in SyncTypes, ports \in HandlePairs,
          s_init \in FailOk, F \in Freqs, s_freq \in FailOk, s_params \in FailOk,
          now \in HostNanos, s_sync \in FailOk, junk \in JunkCache :
        LET run == sidekiq_base_run(build, c, type, s_init, F, s_freq, s_params, now, s_sync)
        IN  /\ card' = c
            /\ hdl' = ports[1]
            /\ hdl2' = ports[2]
            /\ dual_channel' = FALSE
            /\ timestamp_frequency' = IF s_init = 0 /\ s_freq = 0 THEN F ELSE 0
            /\ sidekiq_system_time_interval_nanos' =
                   IF s_init = 0 /\ s_freq = 0 THEN UDiv(NANOSECONDS_IN_SECOND, F) ELSE 0
            \* sample_rate and bandwidth are not assigned by the constructor
            /\ sample_rate' = junk[1]
            /\ bandwidth' = junk[2]
            /\ written' = <<>>
            /\ phase' = CASE run.outcome = "returned" -> "ready"
                          [] run.outcome = "raised" -> "failed"
                          [] OTHER -> "crashed"
            /\ last' = [op |-> "sidekiq_base", dual |-> FALSE, arg |-> sync_arg(type, now),
                        calls |-> run.calls, outcome |-> run.outcome, ret |-> <<>>]
            /\ UNCHANGED build

\* A derived block switches the adapter to two channels (the field is
\* assigned outside sidekiq_base.cc).
set_dual_channel ==
    /\ phase = "ready"
    /\ \E v \in BOOLEAN :
        /\ v # dual_channel
        /\ dual_channel' = v
    /\ UNCHANGED <<build, phase, card, hdl, hdl2, timestamp_frequency,
                   sidekiq_system_time_interval_nanos, sample_rate, bandwidth,
                   written, last>>

set_sync_type ==
    /\ phase = "ready"
    /\ \E type \in SyncTypes, now \in HostNanos, st \in FailOk :
        Finish("set_sync_type", sync_arg(type, now),
               set_sync_type_run(build, type, sidekiq_system_time_interval_nanos, now, st))

\* ---------------------------------------------------------------- telemetry

\* The split with the remainder forgotten: the fraction is timestamp / 1e9.
get_pmt_cons_from_timestamp_no_remainder(timestamp) ==
    <<timestamp \div NANOSECONDS_IN_SECOND,
      [num |-> timestamp, den |-> NANOSECONDS_IN_SECOND]>>

\* (whole seconds, fraction) of a nanosecond count; the fraction is the
\* double (timestamp % NANOSECONDS_IN_SECOND) / 1e9, kept as num / den.
get_pmt_cons_from_timestamp(timestamp) ==
    <<timestamp \div NANOSECONDS_IN_SECOND,
      [num |-> timestamp % NANOSECONDS_IN_SECOND, den |-> NANOSECONDS_IN_SECOND]>>

make_dict == [k \in {} |-> <<>>]

dict_add(d, key, value) ==
    [k \in (DOMAIN d) \cup {key} |-> IF k = key THEN value ELSE d[k]]

get_telemetry_pmt_run(interval, st, ticks, now) ==
    LET read == HwCall("skiq_read_curr_sys_timestamp", NoHdl, st, <<>>)
        sidekiq_time_nanos == ticks * interval
        r1 == dict_add(make_dict, CMD_CURRENT_USRP_TIME,
                       get_pmt_cons_from_timestamp(sidekiq_time_nanos))
        r2 == dict_add(r1, CMD_CURRENT_HOST_TIME, get_pmt_cons_from_timestamp(now))
    IN  IF st # 0 THEN Raised(<<read>>) ELSE Returned(<<read>>, <<r2>>)

get_telemetry_pmt ==
    /\ phase = "ready"
    /\ \E st \in FailOk, ticks \in Ticks, now \in HostNanos :
        Finish("get_telemetry_pmt", <<ticks, now>>,
               get_telemetry_pmt_run(sidekiq_system_time_interval_nanos, st, ticks, now))

\* ------------------------------------------------- timestamps and reference

get_ref_clock_configuration ==
    /\ phase = "ready"
    /\ \E st \in FailOk, p_ref_clk \in {1} :
        Finish("get_ref_clock_configuration", <<>>,
               Checked(HwCall("skiq_read_ref_clock_select", NoHdl, st, <<>>), <<p_ref_clk>>))

set_zero_timestamp ==
    /\ phase = "ready"
    /\ \E st \in FailOk :
        Finish("set_zero_timestamp", <<>>,
               Checked(HwCall("skiq_reset_timestamps", NoHdl, st, <<>>), <<>>))

set_next_pps_timestamp ==
    /\ phase = "ready"
    /\ \E st \in FailOk :
        Finish("set_next_pps_timestamp", <<>>,
               Checked(HwCall("skiq_write_timestamp_update_on_1pps", NoHdl, st, <<0, 0>>), <<>>))

get_last_pps_timestamp ==
    /\ phase = "ready"
    /\ \E st \in FailOk, system_timestamp \in {MaxTicks} :
        Finish("get_last_pps_timestamp", <<>>,
               Checked(HwCall("skiq_read_last_1pps_timestamp", NoHdl, st, <<>>),
                       <<system_timestamp>>))

set_sidekiq_system_timestamp ==
    /\ phase = "ready"
    /\ \E st \in FailOk, timestamp \in {MaxTicks} :
        Finish("set_sidekiq_system_timestamp", <<timestamp>>,
               Checked(HwCall("skiq_update_timestamps", NoHdl, st, <<timestamp>>), <<>>))

get_sidekiq_system_timestamp ==
    /\ phase = "ready"
    /\ \E st \in FailOk, timestamp \in {MaxTicks} :
        Finish("get_sidekiq_system_timestamp", <<>>,
               Checked(HwCall("skiq_read_curr_sys_timestamp", NoHdl, st, <<>>), <<timestamp>>))

get_sys_timestamp_frequency ==
    /\ phase = "ready"
    /\ \E st \in FailOk, F \in {timestamp_frequency} :
        Finish("get_sys_timestamp_frequency", <<>>,
               Checked(HwCall("skiq_read_sys_timestamp_freq", NoHdl, st, <<>>), <<F>>))

get_timestamp ==
    /\ phase = "ready"
    /\ \E handle \in Handles, st \in FailOk, timestamp \in {MaxTicks} :
        Finish("get_timestamp", <<handle>>,
               Checked(HwCall("get_timestamp_func", handle, st, <<>>), <<timestamp>>))

\* ------------------------------------------------------------------ sensors

\* The accelerometer read that throws as soon as the sample fails, before
\* the power-off.
read_accelerometer_run_early_throw(s_sup, supported, s_on, s_read, s_off) ==
    LET query == HwCall("skiq_is_accel_supported", NoHdl, s_sup, <<>>)
        on    == HwCall("skiq_write_accel_state", NoHdl, s_on, <<1>>)
        read  == HwCall("skiq_read_accel", NoHdl, s_read, <<>>)
        off   == HwCall("skiq_write_accel_state", NoHdl, s_off, <<0>>)
    IN  IF ~supported THEN Returned(<<query>>, <<>>)
        ELSE IF s_read # 0 THEN Raised(<<query, on, read>>)
        ELSE Returned(<<query, on, read, off>>, <<>>)

\* `supported` starts false and holds whatever skiq_is_accel_supported left
\* in it; none of the statuses but the sample's is looked at.
read_accelerometer_run(s_sup, supported, s_on, s_read, s_off) ==
    LET query == HwCall("skiq_is_accel_supported", NoHdl, s_sup, <<>>)
        on    == HwCall("skiq_write_accel_state", NoHdl, s_on, <<1>>)
        read  == HwCall("skiq_read_accel", NoHdl, s_read, <<>>)
        off   == HwCall("skiq_write_accel_state", NoHdl, s_off, <<0>>)
    IN  IF ~supported THEN Returned(<<query>>, <<>>)
        ELSE IF s_read # 0 THEN Raised(<<query, on, read, off>>)
        ELSE Returned(<<query, on, read, off>>, <<>>)

read_accelerometer ==
    /\ phase = "ready"
    /\ \E s_sup \in FailOk, supported \in BOOLEAN,
          s_on \in FailOk, s_read \in FailOk, s_off \in FailOk :
        /\ (~supported => s_on = 0 /\ s_read = 0 /\ s_off = 0)
        /\ Finish("read_accelerometer", <<supported>>,
                  read_accelerometer_run(s_sup, supported, s_on, s_read, s_off))

read_rfic_register ==
    /\ phase = "ready"
    /\ \E address \in {0, 1}, st \in FailOk, result \in {255} :
        Finish("read_rfic_register", <<address>>,
               Checked(HwCall("skiq_read_rfic_reg", NoHdl, st, <<address>>), <<result>>))

write_rfic_register ==
    /\ phase = "ready"
    /\ \E address \in {0, 1}, data \in {255}, st \in FailOk :
        Finish("write_rfic_register", <<address, data>>,
               Checked(HwCall("skiq_write_rfic_reg", NoHdl, st, <<address, data>>), <<>>))

read_temperature ==
    /\ phase = "ready"
    /\ \E st \in FailOk, temp \in {-40} :
        Finish("read_temperature", <<>>,
               Checked(HwCall("skiq_read_temp", NoHdl, st, <<>>), <<temp>>))

\* ---------------------------------------------------------------- streaming

\* Streaming started on the primary handle first.
start_streaming_run_primary_first(dual, h, h2, s_sec, s_pri) ==
    LET sec == HwCall("start_streaming_func", h2, s_sec, <<>>)
        pri == HwCall("start_streaming_func", h, s_pri, <<>>)
    IN  IF s_pri # 0 THEN Raised(<<pri>>)
        ELSE IF dual
        THEN IF s_sec # 0 THEN Raised(<<pri, sec>>)
             ELSE Returned(<<pri, sec>>, <<s_sec>>)
        ELSE Returned(<<pri>>, <<s_pri>>)

start_streaming_run(dual, h, h2, s_sec, s_pri) ==
    LET sec == HwCall("start_streaming_func", h2, s_sec, <<>>)
        pri == HwCall("start_streaming_func", h, s_pri, <<>>)
    IN  IF dual
        THEN IF s_sec # 0 THEN Raised(<<sec>>)
             ELSE IF s_pri # 0 THEN Raised(<<sec, pri>>)
             ELSE Returned(<<sec, pri>>, <<s_pri>>)
        ELSE IF s_pri # 0 THEN Raised(<<pri>>)
             ELSE Returned(<<pri>>, <<s_pri>>)

start_streaming ==
    /\ phase = "ready"
    /\ \E s_sec \in Status, s_pri \in Status :
        /\ (~dual_channel => s_sec = 0)
        /\ Finish("start_streaming", <<>>,
                  start_streaming_run(dual_channel, hdl, hdl2, s_sec, s_pri))

stop_streaming_run(dual, h, h2, s_sec, s_pri) ==
    LET sec == HwCall("stop_streaming_func", h2, s_sec, <<>>)
        pri == HwCall("stop_streaming_func", h, s_pri, <<>>)
    IN  IF dual
        THEN IF s_sec # 0 THEN Raised(<<sec>>)
             ELSE IF s_pri # 0 THEN Raised(<<sec, pri>>)
             ELSE Returned(<<sec, pri>>, <<s_pri>>)
        ELSE IF s_pri # 0 THEN Raised(<<pri>>)
             ELSE Returned(<<pri>>, <<s_pri>>)

stop_streaming ==
    /\ phase = "ready"
    /\ \E s_sec \in Status, s_pri \in Status :
        /\ (~dual_channel => s_sec = 0)
        /\ Finish("stop_streaming", <<>>,
                  stop_streaming_run(dual_channel, hdl, hdl2, s_sec, s_pri))

\* ------------------------------------------------- sample rate and bandwidth

get_sample_rate ==
    /\ phase = "ready"
    /\ \E handle \in Handles, st \in FailOk, p_actual_rate \in {0} :
        Finish("get_sample_rate", <<handle>>,
               Checked(HwCall("get_sample_rate_func", handle, st, <<>>), <<p_actual_rate>>))

\* The cache assigned before the status of the primary write is looked at.
set_samplerate_bandwidth_run_caching_early(b, dual, h, h2, old_rate, old_bw, r, w, s_pri, s_sec) ==
    LET rate == CastUnsigned(b, r, UIntRange32)
        bw   == CastUnsigned(b, w, UIntRange32)
        pri  == HwCall("set_sample_rate_func", h, s_pri, <<rate, bw>>)
        sec  == HwCall("set_sample_rate_func", h2, s_sec, <<rate, bw>>)
    IN  IF s_pri # 0
        THEN [calls |-> <<pri>>, outcome |-> "raised", ret |-> <<>>,
              sample_rate |-> rate, bandwidth |-> bw]
        ELSE IF dual
        THEN IF s_sec # 0
             THEN [calls |-> <<pri, sec>>, outcome |-> "raised", ret |-> <<>>,
                   sample_rate |-> rate, bandwidth |-> bw]
             ELSE [calls |-> <<pri, sec>>, outcome |-> "returned", ret |-> <<s_sec>>,
                   sample_rate |-> rate, bandwidth |-> bw]
        ELSE [calls |-> <<pri>>, outcome |-> "returned", ret |-> <<s_pri>>,
              sample_rate |-> rate, bandwidth |-> bw]

\* The cache rolled back when the secondary write fails.
set_samplerate_bandwidth_run_rollback(b, dual, h, h2, old_rate, old_bw, r, w, s_pri, s_sec) ==
    LET rate == CastUnsigned(b, r, UIntRange32)
        bw   == CastUnsigned(b, w, UIntRange32)
        pri  == HwCall("set_sample_rate_func", h, s_pri, <<rate, bw>>)
        sec  == HwCall("set_sample_rate_func", h2, s_sec, <<rate, bw>>)
    IN  IF s_pri # 0
        THEN [calls |-> <<pri>>, outcome |-> "raised", ret |-> <<>>,
              sample_rate |-> old_rate, bandwidth |-> old_bw]
        ELSE IF dual
        THEN IF s_sec # 0
             THEN [calls |-> <<pri, sec>>, outcome |-> "raised", ret |-> <<>>,
                   sample_rate |-> old_rate, bandwidth |-> old_bw]
             ELSE [calls |-> <<pri, sec>>, outcome |-> "returned", ret |-> <<s_sec>>,
                   sample_rate |-> rate, bandwidth |-> bw]
        ELSE [calls |-> <<pri>>, outcome |-> "returned", ret |-> <<s_pri>>,
              sample_rate |-> rate, bandwidth |-> bw]

\* The calls, the end, and the cache the method leaves behind.
set_samplerate_bandwidth_run(b, dual, h, h2, old_rate, old_bw, r, w, s_pri, s_sec) ==
    LET rate == CastUnsigned(b, r, UIntRange32)
        bw   == CastUnsigned(b, w, UIntRange32)
        pri  == HwCall("set_sample_rate_func", h, s_pri, <<rate, bw>>)
        sec  == HwCall("set_sample_rate_func", h2, s_sec, <<rate, bw>>)
    IN  IF s_pri # 0
        THEN [calls |-> <<pri>>, outcome |-> "raised", ret |-> <<>>,
              sample_rate |-> old_rate, bandwidth |-> old_bw]
        ELSE IF dual
        THEN IF s_sec # 0
             THEN [calls |-> <<pri, sec>>, outcome |-> "raised", ret |-> <<>>,
                   sample_rate |-> rate, bandwidth |-> bw]
             ELSE [calls |-> <<pri, sec>>, outcome |-> "returned", ret |-> <<s_sec>>,
                   sample_rate |-> rate, bandwidth |-> bw]
        ELSE [calls |-> <<pri>>, outcome |-> "returned", ret |-> <<s_pri>>,
              sample_rate |-> rate, bandwidth |-> bw]

set_samplerate_bandwidth ==
    /\ phase = "ready"
    /\ \E r \in Doubles32, w \in Doubles32, s_pri \in FailOk, s_sec \in FailOk :
        LET run == set_samplerate_bandwidth_run(build, dual_channel, hdl, hdl2,
                       sample_rate, bandwidth, r, w, s_pri, s_sec)
        IN  /\ (~dual_channel \/ s_pri # 0 => s_sec = 0)
            /\ sample_rate' = run.sample_rate
            /\ bandwidth' = run.bandwidth
            /\ written' = IF run.calls[1].status = 0 THEN run.calls[1].args ELSE written
            /\ last' = Invocation("set_samplerate_bandwidth", <<r, w>>, run)
            /\ UNCHANGED <<build, phase, card, hdl, hdl2, dual_channel,
                           timestamp_frequency, sidekiq_system_time_interval_nanos>>

\* ---------------------------------------------------------------- frequency

get_frequency ==
    /\ phase = "ready"
    /\ \E handle \in Handles, st \in FailOk, p_actual_freq \in {1} :
        Finish("get_frequency", <<handle>>,
               Checked(HwCall("get_frequency_func", handle, st, <<>>), <<p_actual_freq>>))

\* set_frequency with the status of the secondary write not looked at.
set_frequency_run_unchecked_secondary(b, dual, h, h2, value, s_sec, s_pri) ==
    LET sec == HwCall("set_frequency_func", h2, s_sec, <<CastUnsigned(b, value, UIntRange64)>>)
        pri == HwCall("set_frequency_func", h, s_pri, <<CastUnsigned(b, value, UIntRange64)>>)
    IN  IF dual
        THEN IF s_pri # 0 THEN Raised(<<sec, pri>>)
             ELSE Returned(<<sec, pri>>, <<s_pri>>)
        ELSE IF s_pri # 0 THEN Raised(<<pri>>)
             ELSE Returned(<<pri>>, <<s_pri>>)

set_frequency_run(b, dual, h, h2, value, s_sec, s_pri) ==
    LET sec == HwCall("set_frequency_func", h2, s_sec, <<CastUnsigned(b, value, UIntRange64)>>)
        pri == HwCall("set_frequency_func", h, s_pri, <<CastUnsigned(b, value, UIntRange64)>>)
    IN  IF dual
        THEN IF s_sec # 0 THEN Raised(<<sec>>)
             ELSE IF s_pri # 0 THEN Raised(<<sec, pri>>)
             ELSE Returned(<<sec, pri>>, <<s_pri>>)
        ELSE IF s_pri # 0 THEN Raised(<<pri>>)
             ELSE Returned(<<pri>>, <<s_pri>>)

set_frequency ==
    /\ phase = "ready"
    /\ \E value \in Doubles64, s_sec \in FailOk, s_pri \in FailOk :
        /\ (~dual_channel => s_sec = 0)
        /\ Finish("set_frequency", <<value>>,
                  set_frequency_run(build, dual_channel, hdl, hdl2, value, s_sec, s_pri))

\* The status of the probe's frequency write is dropped; the result is the
\* elapsed time.
get_set_frequency_call_latency_run(handle, st, elapsed) ==
    Returned(<<HwCall("set_frequency_func", handle, st, <<LatencyProbeMHz>>)>>, <<elapsed>>)

get_set_frequency_call_latency ==
    /\ phase = "ready"
    /\ \E handle \in Handles, st \in FailOk, elapsed \in {125} :
        Finish("get_set_frequency_call_latency", <<handle>>,
               get_set_frequency_call_latency_run(handle, st, elapsed))

\* ------------------------------------------------------------------ filters

set_filter_parameters ==
    /\ phase = "ready"
    /\ \E st \in FailOk :
        Finish("set_filter_parameters", <<>>,
               Checked(HwCall("set_rfic_fir_coeffs_func", NoHdl, st, <<>>), <<>>))

get_filter_parameters_run(s_config, s_coeffs) ==
    LET config == HwCall("get_rfic_fir_config_func", NoHdl, s_config, <<>>)
        coeffs == HwCall("get_rfic_fir_coeffs_func", NoHdl, s_coeffs, <<>>)
    IN  IF s_config # 0 THEN Raised(<<config>>)
        ELSE IF s_coeffs # 0 THEN Raised(<<config, coeffs>>)
        ELSE Returned(<<config, coeffs>>, <<>>)

get_filter_parameters ==
    /\ phase = "ready"
    /\ \E s_config \in FailOk, s_coeffs \in FailOk :
        /\ (s_config # 0 => s_coeffs = 0)
        /\ Finish("get_filter_parameters", <<>>,
                  get_filter_parameters_run(s_config, s_coeffs))

\* Prints the capability snapshot; no hardware call.
get_configuration_limits ==
    /\ phase = "ready"
    /\ Finish("get_configuration_limits", <<>>, Returned(<<>>, <<>>))

\* ------------------------------------------------------------ specification

Next ==
    \/ sidekiq_base
    \/ set_dual_channel
    \/ set_sync_type
    \/ get_telemetry_pmt
    \/ get_configuration_limits
    \/ get_ref_clock_configuration
    \/ set_zero_timestamp
    \/ set_next_pps_timestamp
    \/ get_last_pps_timestamp
    \/ set_sidekiq_system_timestamp
    \/ get_sidekiq_system_timestamp
    \/ get_sys_timestamp_frequency
    \/ read_accelerometer
    \/ read_rfic_register
    \/ write_rfic_register
    \/ read_temperature
    \/ start_streaming
    \/ stop_streaming
    \/ get_sample_rate
    \/ set_samplerate_bandwidth
    \/ get_frequency
    \/ set_frequency
    \/ get_timestamp
    \/ get_set_frequency_call_latency
    \/ set_filter_parameters
    \/ get_filter_parameters

Spec == Init /\ [][Next]_vars

TypeOK ==
    /\ build \in Builds
    /\ phase \in {"unconstructed", "ready", "failed", "crashed"}
    /\ hdl \in Handles /\ hdl2 \in Handles
    /\ dual_channel \in BOOLEAN
    /\ sample_rate \in UInt32 /\ bandwidth \in UInt32
    /\ last.outcome \in {"returned", "raised", "crashed"}

\* ------------------------------------------------------------------- claims

HwFailed(c) == c.status # 0

AnyFailed(calls) == \E i \in DOMAIN calls : HwFailed(calls[i])

Fns(calls) == [i \in DOMAIN calls |-> calls[i].fn]

PublicOps ==
    {"sidekiq_base", "set_sync_type", "get_ref_clock_configuration",
     "set_zero_timestamp", "set_next_pps_timestamp", "get_last_pps_timestamp",
     "set_sidekiq_system_timestamp", "get_sidekiq_system_timestamp",
     "get_sys_timestamp_frequency", "get_timestamp", "start_streaming",
     "stop_streaming", "get_sample_rate", "set_samplerate_bandwidth",
     "get_frequency", "set_frequency", "get_set_frequency_call_latency",
     "set_filter_parameters", "get_filter_parameters", "read_rfic_register",
     "write_rfic_register", "read_temperature", "read_accelerometer"}

\* C1: an operation one of whose hardware calls reported a non-zero status
\* ends by raising a failure; none returns normally after such a status.
C1_NoMaskedHardwareError ==
    (last.op \in PublicOps /\ AnyFailed(last.calls)) => last.outcome = "raised"

\* The fan-out of one streaming invocation: in dual-channel mode the
\* secondary handle, then (only after its success) the primary handle; in
\* single-channel mode the primary handle alone; the invocation raises
\* exactly when the last call it issued failed, and issues nothing after it.
StreamingFanOut(fn) ==
    LET c == last.calls
    IN  /\ \A i \in DOMAIN c : c[i].fn = fn
        /\ IF last.dual
           THEN /\ Len(c) \in {1, 2}
                /\ c[1].h = hdl2
                /\ HwFailed(c[1]) => Len(c) = 1 /\ last.outcome = "raised"
                /\ ~HwFailed(c[1]) =>
                       /\ Len(c) = 2
                       /\ c[2].h = hdl
                       /\ (last.outcome = "raised") = HwFailed(c[2])
                       /\ (last.outcome = "returned") = ~HwFailed(c[2])
           ELSE /\ Len(c) = 1
                /\ c[1].h = hdl
                /\ (last.outcome = "raised") = HwFailed(c[1])
                /\ (last.outcome = "returned") = ~HwFailed(c[1])

\* C2: start_streaming and stop_streaming issue a prefix of (secondary,
\* primary) that stops at the first non-zero status; a primary failure
\* raises with the secondary operation left applied; a single-channel
\* adapter calls the primary handle only.
C2_StreamingOrder ==
    /\ last.op = "start_streaming" => StreamingFanOut("start_streaming_func")
    /\ last.op = "stop_streaming" => StreamingFanOut("stop_streaming_func")

\* Witness of C2: a dual-channel stop whose secondary call succeeded and
\* whose primary call failed.
C2_Witness ==
    /\ last.op = "stop_streaming" /\ last.dual
    /\ Len(last.calls) = 2
    /\ ~HwFailed(last.calls[1]) /\ HwFailed(last.calls[2])
    /\ last.outcome = "raised"

\* The cache is left as it was, the invocation raised, and the secondary
\* channel was not written.
PrimaryFailureKeepsCache ==
    HwFailed(last'.calls[1]) =>
        /\ sample_rate' = sample_rate
        /\ bandwidth' = bandwidth
        /\ last'.outcome = "raised"
        /\ Len(last'.calls) = 1

\* A step of set_samplerate_bandwidth: every other method leaves its own name
\* in `last`, and switching the channel mode changes dual_channel.
SetRateStep ==
    /\ last'.op = "set_samplerate_bandwidth"
    /\ dual_channel' = dual_channel

\* C3 as stated: after set_samplerate_bandwidth(r, b) the cache reads
\* (floor(r), floor(b)) when the primary hardware call succeeded, and is
\* unchanged (the call raising, the secondary unwritten) when it failed.
C3_FloorCached ==
    [][SetRateStep =>
        /\ ~HwFailed(last'.calls[1]) =>
               /\ sample_rate' = Floor(last'.arg[1])
               /\ bandwidth' = Floor(last'.arg[2])
        /\ PrimaryFailureKeepsCache]_vars

\* C3 amended: the cache reads the arguments truncated toward zero, for each
\* argument whose truncation the unsigned 32-bit type holds (which is the
\* floor for every such argument that is not negative); a failed primary
\* call leaves the cache unchanged.
C3_TruncCached ==
    [][SetRateStep =>
        /\ ~HwFailed(last'.calls[1]) =>
               /\ Representable(last'.arg[1], UIntRange32) =>
                      sample_rate' = Trunc(last'.arg[1])
               /\ Representable(last'.arg[2], UIntRange32) =>
                      bandwidth' = Trunc(last'.arg[2])
               /\ (last'.arg[1] >= 0 /\ Representable(last'.arg[1], UIntRange32)) =>
                      sample_rate' = Floor(last'.arg[1])
               /\ (last'.arg[2] >= 0 /\ Representable(last'.arg[2], UIntRange32)) =>
                      bandwidth' = Floor(last'.arg[2])
        /\ PrimaryFailureKeepsCache]_vars

\* Witness of C3: a successful call with a fractional rate inside the type
\* has been cached, and differs from what the cache could hold by chance.
C3_Witness ==
    /\ last.op = "set_samplerate_bandwidth"
    /\ ~HwFailed(last.calls[1])
    /\ last.arg[1] = UIntRange32 * Den - 1
    /\ last.arg[2] = -1
    /\ sample_rate = UIntRange32 - 1
    /\ bandwidth = 0

\* C4: a dual-channel set_frequency(f) writes the secondary handle, then the
\* primary handle, both with f truncated to an unsigned integer; a failed
\* secondary write raises and leaves the primary unwritten; a single-channel
\* adapter issues the one write on the primary handle.
C4_SetFrequencyFanOut ==
    last.op = "set_frequency" =>
        LET c == last.calls
        IN  /\ StreamingFanOut("set_frequency_func")
            /\ \A i \in DOMAIN c : c[i].args = c[1].args
            /\ Representable(last.arg[1], UIntRange64) =>
                   \A i \in DOMAIN c : c[i].args = <<Trunc(last.arg[1])>>
            /\ (last.dual /\ last.outcome = "returned") => Len(c) = 2

\* Witness of C4: a dual-channel set_frequency of a fractional value, both
\* writes done and successful.
C4_Witness ==
    /\ last.op = "set_frequency" /\ last.dual
    /\ last.outcome = "returned"
    /\ Len(last.calls) = 2
    /\ last.arg[1] = UIntRange64 * Den - 1
    /\ last.calls[2].args = <<UIntRange64 - 1>>

\* The hardware calls the synchronization policy issued in the latest
\* invocation: all of a set_sync_type, what follows the snapshot read in the
\* constructor.
SyncCalls ==
    IF last.op = "set_sync_type" THEN last.calls
    ELSE SubSeq(last.calls, 4, Len(last.calls))

SyncInvoked ==
    \/ last.op = "set_sync_type"
    \/ last.op = "sidekiq_base" /\ Len(last.calls) >= 3

\* C5: the synchronization policy issues exactly the timestamp action of its
\* mode (zero: one reset; external pulse: nothing; host clock: one update
\* write), at construction and on every set_sync_type, and raises only when
\* that hardware call failed.
C5_SyncPolicy ==
    SyncInvoked =>
        /\ last.arg[1] = SYNC_ZERO => Fns(SyncCalls) = <<"skiq_reset_timestamps">>
        /\ last.arg[1] = SYNC_GPS_PPS => SyncCalls = <<>>
        /\ last.arg[1] = SYNC_SYSTEM_TIME => Fns(SyncCalls) = <<"skiq_update_timestamps">>
        /\ (last.outcome # "returned") = AnyFailed(SyncCalls)

\* Witness of C5's case: a host-clock synchronization ran against a tick
\* interval of zero.
C5_ZeroIntervalSync ==
    /\ SyncInvoked
    /\ last.arg[1] = SYNC_SYSTEM_TIME
    /\ sidekiq_system_time_interval_nanos = 0

ConstructionOrder ==
    <<"skiq_init", "skiq_read_sys_timestamp_freq", "skiq_read_parameters">>

\* C6: the constructor issues transport initialization, timestamp-frequency
\* query, snapshot read and synchronization in that order; a failed
\* initialization raises with nothing issued after it, and a failed
\* frequency query raises with neither snapshot read nor synchronization.
C6_ConstructionOrder ==
    last.op = "sidekiq_base" =>
        LET c == last.calls
        IN  /\ Len(c) >= 1 /\ Len(c) <= 4
            /\ \A i \in DOMAIN c :
                   IF i <= 3 THEN c[i].fn = ConstructionOrder[i]
                   ELSE c[i].fn \in {"skiq_reset_timestamps", "skiq_update_timestamps"}
            /\ HwFailed(c[1]) => Len(c) = 1 /\ last.outcome = "raised"
            /\ (Len(c) >= 2 /\ HwFailed(c[2])) => Len(c) = 2 /\ last.outcome = "raised"
            /\ ~HwFailed(c[1]) => Len(c) >= 2
            /\ last.outcome = "returned" =>
                   Len(c) = IF last.arg[1] \in {SYNC_ZERO, SYNC_SYSTEM_TIME} THEN 4 ELSE 3

\* Witness of C6: the transport came up and the frequency query failed.
C6_Witness ==
    /\ last.op = "sidekiq_base"
    /\ Len(last.calls) = 2
    /\ ~HwFailed(last.calls[1]) /\ HwFailed(last.calls[2])
    /\ phase = "failed"

\* A telemetry entry is the (whole, fraction) split of the nanosecond count t.
SplitOf(pair, t) ==
    /\ Len(pair) = 2
    /\ pair[1] = t \div NANOSECONDS_IN_SECOND
    /\ pair[2].den = 1000000000
    /\ pair[2].num >= 0 /\ pair[2].num < pair[2].den
    /\ pair[2].num = t % 1000000000
    /\ pair[1] * 1000000000 + pair[2].num = t

\* C7: a successful get_telemetry_pmt returns exactly the two telemetry
\* keys, each with the (whole seconds, fraction in [0,1)) split of its
\* nanosecond count; the radio's count is the tick count times the cached
\* nanoseconds per tick.
C7_Telemetry ==
    (last.op = "get_telemetry_pmt" /\ last.outcome = "returned") =>
        LET d == last.ret[1]
        IN  /\ DOMAIN d = {CMD_CURRENT_USRP_TIME, CMD_CURRENT_HOST_TIME}
            /\ Cardinality(DOMAIN d) = 2
            /\ SplitOf(d[CMD_CURRENT_USRP_TIME],
                       last.arg[1] * sidekiq_system_time_interval_nanos)
            /\ SplitOf(d[CMD_CURRENT_HOST_TIME], last.arg[2])

\* Witness of C7: telemetry whose radio time is past one second with a
\* non-zero fraction, and whose host time is past two seconds.
C7_Witness ==
    /\ last.op = "get_telemetry_pmt" /\ last.outcome = "returned"
    /\ last.ret[1][CMD_CURRENT_USRP_TIME][1] = 1
    /\ last.ret[1][CMD_CURRENT_USRP_TIME][2].num = 25
    /\ last.ret[1][CMD_CURRENT_HOST_TIME][1] = 2

\* C8: read_accelerometer asks for support; unsupported, it returns with
\* nothing else issued; supported, it issues power-on, one sample and
\* power-off in that order, the power-off also after a failed sample, whose
\* failure is raised after it.
C8_Accelerometer ==
    last.op = "read_accelerometer" =>
        LET c == last.calls
        IN  /\ Len(c) >= 1
            /\ c[1].fn = "skiq_is_accel_supported"
            /\ ~last.arg[1] => Len(c) = 1 /\ last.outcome = "returned"
            /\ last.arg[1] =>
                   /\ Fns(c) = <<"skiq_is_accel_supported", "skiq_write_accel_state",
                                 "skiq_read_accel", "skiq_write_accel_state">>
                   /\ c[2].args = <<1>>
                   /\ c[4].args = <<0>>
                   /\ (last.outcome = "raised") = HwFailed(c[3])
                   /\ (last.outcome = "returned") = ~HwFailed(c[3])

\* Witness of C8: a supported accelerometer whose sample failed: the
\* power-off was issued and the failure raised.
C8_Witness ==
    /\ last.op = "read_accelerometer"
    /\ last.arg[1]
    /\ Len(last.calls) = 4
    /\ HwFailed(last.calls[3])
    /\ last.calls[4].fn = "skiq_write_accel_state"
    /\ last.outcome = "raised"

\* The cache holds what the latest successful primary write was given.
CacheMirrorsWrite ==
    /\ written # <<>> => <<sample_rate, bandwidth>> = written
    /\ (last.op = "set_samplerate_bandwidth" /\ ~HwFailed(last.calls[1])) =>
           /\ written = last.calls[1].args
           /\ Representable(last.arg[1], UIntRange32) => sample_rate = Trunc(last.arg[1])
           /\ Representable(last.arg[2], UIntRange32) => bandwidth = Trunc(last.arg[2])
           /\ (Len(last.calls) = 2 /\ HwFailed(last.calls[2])) => last.outcome = "raised"

\* C9: through any sequence of calls the cache equals the truncated
\* arguments of the latest set_samplerate_bandwidth whose primary write
\* succeeded (a failed secondary write raises and rolls nothing back), and
\* no other operation of the adapter changes the cache.
C9_CacheMirrorsPrimary ==
    [][/\ CacheMirrorsWrite'
       /\ (phase = "ready" /\ <<sample_rate, bandwidth>>' # <<sample_rate, bandwidth>>) =>
              /\ last'.op = "set_samplerate_bandwidth"
              /\ ~HwFailed(last'.calls[1])]_vars

\* Witness of C9: a dual-channel call whose primary write succeeded and
\* whose secondary write failed raised, and its values are cached.
C9_Witness ==
    /\ last.op = "set_samplerate_bandwidth" /\ last.dual
    /\ Len(last.calls) = 2
    /\ ~HwFailed(last.calls[1]) /\ HwFailed(last.calls[2])
    /\ last.outcome = "raised"
    /\ last.arg = <<UIntRange32 * Den - 1, Den + 1>>
    /\ <<sample_rate, bandwidth>> = <<UIntRange32 - 1, 1>>

\* C10: the cached interval is 10^9 div F for the frequency F the hardware
\* reported, a positive integer for every F; host-clock synchronization
\* writes (host nanoseconds) div interval; no division by zero happens.
C10_IntervalWellDefined ==
    /\ last.outcome # "crashed"
    /\ phase = "ready" =>
           /\ timestamp_frequency > 0
           /\ sidekiq_system_time_interval_nanos =
                  NANOSECONDS_IN_SECOND \div timestamp_frequency
           /\ sidekiq_system_time_interval_nanos > 0
    /\ (last.op = "set_sync_type" /\ last.arg[1] = SYNC_SYSTEM_TIME) =>
           /\ sidekiq_system_time_interval_nanos > 0
           /\ Len(last.calls) = 1
           /\ last.calls[1].args = <<last.arg[2] \div sidekiq_system_time_interval_nanos>>

====
